---- MODULE Spec2Model ----
(***************************************************************************)
(* unity-guid-rewriter: src/src/main.rs.                                   *)
(*                                                                         *)
(* main() builds a mapping (old guid -> freshly generated guid) from the   *)
(* .meta files below scan_dir (make_mapping) and then walks the working    *)
(* directory, overwriting every occurrence of an old guid by its new guid  *)
(* in every file that is not ignored (apply_mapping).                      *)
(*                                                                         *)
(* Text is modelled as a sequence of one-character strings (bytes), a      *)
(* Uuid as a sequence of 32 nibbles (0..15).                               *)
(***************************************************************************)
EXTENDS Integers, Sequences, FiniteSets, TLC

\* ------------------------------------------------------------------ bounds

\* Longest directory walk of scan_dir (entries yielded by WalkDir).
MaxMetas == 2
\* Longest directory walk of the working directory.
MaxFiles == 2
\* Number of distinct values Uuid::new_v4() may return.
NumNew == 2
\* Number of write failures the environment may inject in one run.
MaxWriteFaults == 1

\* --------------------------------------------------------------- constants

UUID_STR_LEN == 32

\* ------------------------------------------------------------------- text

Lower == <<"0","1","2","3","4","5","6","7","8","9","a","b","c","d","e","f">>
Upper == <<"0","1","2","3","4","5","6","7","8","9","A","B","C","D","E","F">>

Range(s) == {s[i] : i \in 1..Len(s)}

Rep(c, n) == [i \in 1..n |-> c]

\* str::ends_with
EndsWith(s, suf) ==
  /\ Len(suf) <= Len(s)
  /\ SubSeq(s, Len(s) - Len(suf) + 1, Len(s)) = suf

\* str::starts_with
StartsWith(s, pre) ==
  /\ Len(pre) <= Len(s)
  /\ SubSeq(s, 1, Len(pre)) = pre

\* str::trim for the ASCII space
RECURSIVE TrimStart(_)
TrimStart(s) ==
  IF s # <<>> /\ Head(s) = " " THEN TrimStart(Tail(s)) ELSE s

RECURSIVE TrimEnd(_)
TrimEnd(s) ==
  IF s # <<>> /\ s[Len(s)] = " " THEN TrimEnd(SubSeq(s, 1, Len(s) - 1)) ELSE s

Trim(s) == TrimEnd(TrimStart(s))

\* -------------------------------------------------------------------- uuid

LowerDigits == Range(Lower)
HexDigits == Range(Lower) \cup Range(Upper)

IsHex(c) == c \in HexDigits

\* The value of every hexadecimal digit, either case.
HexValues ==
  [c \in HexDigits |-> CHOOSE v \in 0..15 : Lower[v + 1] = c \/ Upper[v + 1] = c]

HexVal(c) == HexValues[c]

HyphenAt == {9, 14, 19, 24}

IsSimple(s) ==
  /\ Len(s) = 32
  /\ \A i \in 1..32 : IsHex(s[i])

IsHyphenated(s) ==
  /\ Len(s) = 36
  /\ \A i \in 1..36 : IF i \in HyphenAt THEN s[i] = "-" ELSE IsHex(s[i])

Dehyphenate(s) == SubSeq(s, 1, 8) \o SubSeq(s, 10, 13) \o SubSeq(s, 15, 18)
                    \o SubSeq(s, 20, 23) \o SubSeq(s, 25, 36)

UrnPrefix == <<"u","r","n",":","u","u","i","d",":">>

\* uuid::Uuid::parse_str: the simple, hyphenated, braced and URN forms, hex
\* digits of either case.  [ok |-> FALSE] is the Err result.
ParseStr(s) ==
  LET digits(t) == [ok |-> TRUE, uuid |-> [i \in 1..32 |-> HexVal(t[i])]]
      err == [ok |-> FALSE, uuid |-> <<>>]
  IN  IF IsSimple(s) THEN digits(s)
      ELSE IF IsHyphenated(s) THEN digits(Dehyphenate(s))
      ELSE IF Len(s) = 38 /\ s[1] = "{" /\ s[38] = "}"
              /\ IsHyphenated(SubSeq(s, 2, 37))
        THEN digits(Dehyphenate(SubSeq(s, 2, 37)))
      ELSE IF StartsWith(s, UrnPrefix) /\ IsHyphenated(SubSeq(s, 10, Len(s)))
        THEN digits(Dehyphenate(SubSeq(s, 10, Len(s))))
      ELSE err

\* Uuid::simple().to_string(): 32 lowercase hexadecimal digits.
SimpleString(u) == [i \in 1..Len(u) |-> Lower[u[i] + 1]]

\* Uuid::hyphenated().to_string(), the canonical form of descriptor files.
HyphenatedString(u) ==
  LET s == SimpleString(u)
  IN  SubSeq(s, 1, 8) \o <<"-">> \o SubSeq(s, 9, 12) \o <<"-">>
        \o SubSeq(s, 13, 16) \o <<"-">> \o SubSeq(s, 17, 20) \o <<"-">>
        \o SubSeq(s, 21, 32)

\* A version 4, variant 1 uuid whose random nibbles all equal n.
V4(n) == [i \in 1..32 |-> IF i = 13 THEN 4 ELSE IF i = 17 THEN 8 ELSE n]

\* Uuid::new_v4(): a random uuid; the values the model lets it return.
NewV4 == {V4(10 + k) : k \in 1..NumNew}

\* ----------------------------------------------------------- substitution

\* str::match_indices(src) mapped to the offsets: the 0-based offsets of the
\* non-overlapping occurrences of pat in the text, found left to right.
RECURSIVE MatchFrom(_, _, _)
MatchFrom(text, pat, i) ==
  IF i + Len(pat) - 1 > Len(text) THEN <<>>
  ELSE IF SubSeq(text, i, i + Len(pat) - 1) = pat
    THEN <<i - 1>> \o MatchFrom(text, pat, i + Len(pat))
    ELSE MatchFrom(text, pat, i + 1)

\* Mutant of MatchIndices: the search resumes one byte after a match, so
\* overlapping occurrences are found too.
RECURSIVE MatchFromOverlapping(_, _, _)
MatchFromOverlapping(text, pat, i) ==
  IF i + Len(pat) - 1 > Len(text) THEN <<>>
  ELSE IF SubSeq(text, i, i + Len(pat) - 1) = pat
    THEN <<i - 1>> \o MatchFromOverlapping(text, pat, i + 1)
    ELSE MatchFromOverlapping(text, pat, i + 1)

MatchIndices_Overlapping(text, pat) == MatchFromOverlapping(text, pat, 1)

MatchIndices(text, pat) == MatchFrom(text, pat, 1)

\* Mutant of CopyFromSlice: the window starts one byte late.
CopyFromSlice_Shifted(text, n, dst) ==
  [i \in 1..Len(text) |->
     IF n + 1 < i /\ i <= n + 1 + UUID_STR_LEN THEN dst[i - n - 1] ELSE text[i]]

\* contents[n..(n + UUID_STR_LEN)].as_bytes_mut().copy_from_slice(dst)
CopyFromSlice(text, n, dst) ==
  [i \in 1..Len(text) |->
     IF n < i /\ i <= n + UUID_STR_LEN THEN dst[i - n] ELSE text[i]]

\* Mutant of OverwriteAll: only the first occurrence found is overwritten.
OverwriteAll_First(text, indices, dst) ==
  IF indices = <<>> THEN text ELSE CopyFromSlice(text, Head(indices), dst)

\* for n in &indices { overwrite at n }
RECURSIVE OverwriteAll(_, _, _)
OverwriteAll(text, indices, dst) ==
  IF indices = <<>> THEN text
  ELSE OverwriteAll(CopyFromSlice(text, Head(indices), dst), Tail(indices), dst)

\* ------------------------------------------------------------------ inputs

Str_meta == <<".","m","e","t","a">>
Name_meta == <<"d">> \o Str_meta
Name_other == <<"d",".","t","x","t">>
Name_txt == <<"t",".","t","x","t">>
Name_png == <<"t",".","p","n","g">>

\* The old identifiers declared by the descriptor files of the model.
UuidA == Rep(10, 32)
UuidB == V4(11)
UuidY == [i \in 1..32 |-> IF i <= 16 THEN 10 ELSE 12]

IdA == SimpleString(UuidA)
IdB == SimpleString(UuidB)
IdY == SimpleString(UuidY)

\* One entry of the walk of scan_dir.  kind: "err" (the walk yields Err),
\* "dir" (not a regular file) or "file"; read: whether read_to_string returns
\* Ok; yaml: what YamlLoader::load_from_str makes of the text; guid: the
\* string held by the guid key when there is one.
Desc(kind, name, read, yaml, guid) ==
  [kind |-> kind, name |-> name, read |-> read, yaml |-> yaml, guid |-> guid]

GuidDesc(s) == Desc("file", Name_meta, TRUE, "guid", s)

BadYaml == {"parse_err", "docs0", "docs2", "nonhash", "noguid", "nonstring"}

GuidStrings ==
  { HyphenatedString(UuidA),                \* canonical form
    Rep("A", 32),                           \* the same uuid, upper case
    IdB,                                    \* a v4 uuid, simple form
    <<"{">> \o HyphenatedString(UuidY) \o <<"}">>,
    Rep("a", 31),                           \* too short
    Rep("g", 32) }                          \* not hexadecimal

AllDescs ==
  { Desc("err", <<>>, FALSE, "parse_err", <<>>),
    Desc("dir", Name_meta, FALSE, "parse_err", <<>>),
    Desc("file", Name_other, TRUE, "guid", IdA),
    Desc("file", Name_meta, FALSE, "guid", IdA) }
  \cup { Desc("file", Name_meta, TRUE, y, <<>>) : y \in BadYaml }
  \cup { GuidDesc(s) : s \in GuidStrings }

\* One entry of the walk of the working directory.
File(kind, name, read, content) ==
  [kind |-> kind, name |-> name, read |-> read, content |-> content]

Texts ==
  { <<"x">>,                                        \* no identifier
    <<"x">> \o IdA \o <<"x">> \o IdB \o <<"x">> \o IdA,
    \* 33 a's, then 16 c's: IdA overlaps itself, and IdY at offset 17
    IdA \o <<"a">> \o SubSeq(IdY, 17, 32) }

\* The readable files of the working directory.
TextFiles == {File("file", Name_txt, TRUE, t) : t \in Texts}

AllFiles ==
  { File("err", <<>>, FALSE, <<>>),
    File("dir", Name_txt, FALSE, <<>>),
    File("file", Name_png, TRUE, <<"x">> \o IdA \o <<"x">>),
    File("file", Name_txt, FALSE, <<"x">> \o IdA \o <<"x">>) }
  \cup TextFiles

SeqsUpTo(S, n) == UNION {[1..k -> S] : k \in 0..n}

\* The --ignore option: None, or Some(text).
Opt_none == [some |-> FALSE, text |-> <<>>]
Opt_some(t) == [some |-> TRUE, text |-> t]

\* ------------------------------------------------------------------- state

VARIABLES
  pc,        \* "make", "walk", "entry", "write", "done", "panic"
  src,       \* the walk of scan_dir
  tree,      \* the walk of the working directory, with the content at start
  force,     \* Options.force
  ignore,    \* main: the ignore list built from Options.ignore
  mi,        \* make_mapping: index of the next entry of src
  mapping,   \* the Vec<(String, String)>
  fi,        \* apply_mapping: index of the current entry of tree
  ei,        \* apply_mapping: index of the next mapping entry for this file
  contents,  \* apply_mapping: the String read from the current file
  disk,      \* the content on disk of every entry of tree
  reads,     \* per entry: calls of read_to_string
  writes,    \* per entry: calls of fs::write
  wres,      \* per entry: "none", "ok" or "err", the result of fs::write
  found,     \* per entry: the counts logged by "will rewrite", one per mapping entry
  touched,   \* the byte positions of the windows overwritten in contents
  faults     \* write failures so far

vars == <<pc, src, tree, force, ignore, mi, mapping, fi, ei, contents,
          disk, reads, writes, wres, found, touched, faults>>

inputs == <<src, tree, force, ignore>>

\* ------------------------------------------------------------------- main

\* str::split(",")
RECURSIVE Split(_, _)
Split(s, acc) ==
  IF s = <<>> THEN <<acc>>
  ELSE IF Head(s) = "," THEN <<acc>> \o Split(Tail(s), <<>>)
  ELSE Split(Tail(s), Append(acc, Head(s)))

Str_default == <<"p","n","g",",","g","i","t",",","f","b","x",",","e","x","e">>

\* main: the ignore list, each fragment trimmed and prefixed with "."
IgnoreList(opt) ==
  LET parts == Split(IF opt.some THEN opt.text ELSE Str_default, <<>>)
  IN  [i \in 1..Len(parts) |-> <<".">> \o Trim(parts[i])]

StartState(s, t, f, o) ==
  /\ src = s /\ tree = t /\ force = f /\ ignore = IgnoreList(o)
  /\ pc = "make" /\ mi = 1 /\ mapping = <<>>
  /\ fi = 0 /\ ei = 0 /\ contents = <<>>
  /\ disk = [i \in 1..Len(t) |-> t[i].content]
  /\ reads = [i \in 1..Len(t) |-> 0]
  /\ writes = [i \in 1..Len(t) |-> 0]
  /\ wres = [i \in 1..Len(t) |-> "none"]
  /\ found = [i \in 1..Len(t) |-> <<>>]
  /\ touched = {}
  /\ faults = 0

\* ----------------------------------------------------------- make_mapping

\* Mutant of DescriptorGuid: the name of the file is not checked.
DescriptorGuid_AnyName(e) ==
  IF e.kind = "file" /\ e.read /\ e.yaml = "guid"
    THEN ParseStr(e.guid)
    ELSE [ok |-> FALSE, uuid |-> <<>>]

\* The body of the loop over the walk, up to the parsed uuid: the checks a
\* regular file goes through, in the order of the code.
DescriptorGuid(e) ==
  LET skip == [ok |-> FALSE, uuid |-> <<>>]
  IN  IF e.kind # "file" THEN skip
      ELSE IF ~EndsWith(e.name, Str_meta) THEN skip
      ELSE IF ~e.read THEN skip
      ELSE IF e.yaml \in {"parse_err", "docs0", "docs2"} THEN skip
      ELSE IF e.yaml = "nonhash" THEN skip
      ELSE IF e.yaml \in {"noguid", "nonstring"} THEN skip
      ELSE ParseStr(e.guid)

\* mapping.push((guid.simple().to_string(), new_guid.simple().to_string()))
Push(m, guid, new_guid) ==
  Append(m, <<SimpleString(guid), SimpleString(new_guid)>>)

\* entry.unwrap() on an Err of the walk panics.
MakeWalkErr ==
  /\ pc = "make" /\ mi <= Len(src)
  /\ src[mi].kind = "err"
  /\ pc' = "panic"
  /\ UNCHANGED <<inputs, mi, mapping, fi, ei, contents, disk, reads, writes,
                 wres, found, touched, faults>>

\* Every `continue` of the loop: the entry is logged (or not) and skipped.
MakeSkip ==
  /\ pc = "make" /\ mi <= Len(src)
  /\ src[mi].kind # "err"
  /\ ~DescriptorGuid(src[mi]).ok
  /\ mi' = mi + 1
  /\ UNCHANGED <<inputs, pc, mapping, fi, ei, contents, disk, reads, writes,
                 wres, found, touched, faults>>

\* A descriptor with a valid guid: a new uuid is generated, the pair pushed.
MakePush ==
  /\ pc = "make" /\ mi <= Len(src)
  /\ src[mi].kind # "err"
  /\ DescriptorGuid(src[mi]).ok
  /\ \E new_guid \in NewV4 :
       mapping' = Push(mapping, DescriptorGuid(src[mi]).uuid, new_guid)
  /\ mi' = mi + 1
  /\ UNCHANGED <<inputs, pc, fi, ei, contents, disk, reads, writes,
                 wres, found, touched, faults>>

\* The walk is over: make_mapping returns and main calls apply_mapping.
MakeReturn ==
  /\ pc = "make" /\ mi > Len(src)
  /\ pc' = "walk" /\ fi' = 1
  /\ UNCHANGED <<inputs, mi, mapping, ei, contents, disk, reads, writes,
                 wres, found, touched, faults>>

\* ---------------------------------------------------------- apply_mapping

\* Mutant of IsIgnored: all() instead of any().
IsIgnored_All(name, list) == \A i \in 1..Len(list) : EndsWith(name, list[i])

\* ignore.iter().any(|ext| file_name.ends_with(ext))
IsIgnored(name, list) == \E i \in 1..Len(list) : EndsWith(name, list[i])

\* The byte positions (1-based) of the windows at the offsets found.
Windows(indices) ==
  {p \in 1..(2 * UUID_STR_LEN * (1 + Len(indices)) + Len(contents)) :
     \E k \in 1..Len(indices) :
       indices[k] < p /\ p <= indices[k] + UUID_STR_LEN}

\* Mutant of Rewritten: the overwrite is lost, the String stays as read.
Rewritten_Unapplied(text, entry, f) == text

\* What a mapping entry does to the String in memory.
Rewritten(text, entry, f) ==
  LET indices == MatchIndices(text, entry[1])
  IN  IF f /\ indices # <<>> THEN OverwriteAll(text, indices, entry[2])
      ELSE text

\* What fs::write leaves on disk when it returns Err: File::create failed
\* (the old content), or write_all failed after the truncation, with nothing
\* or a part of the new content written.
WriteErrOutcomes(old, new) ==
  {old, <<>>, SubSeq(new, 1, Len(new) \div 2)}

ApplyWalkErr ==
  /\ pc = "walk" /\ fi <= Len(tree)
  /\ tree[fi].kind = "err"
  /\ pc' = "panic"
  /\ UNCHANGED <<inputs, mi, mapping, fi, ei, contents, disk, reads, writes,
                 wres, found, touched, faults>>

\* Not a regular file, or a name with an ignored suffix: continue.
ApplySkip ==
  /\ pc = "walk" /\ fi <= Len(tree)
  /\ tree[fi].kind # "err"
  /\ \/ tree[fi].kind # "file"
     \/ IsIgnored(tree[fi].name, ignore)
  /\ fi' = fi + 1
  /\ UNCHANGED <<inputs, pc, mi, mapping, ei, contents, disk, reads, writes,
                 wres, found, touched, faults>>

\* read_to_string returns Err: logged, continue.
ApplyReadErr ==
  /\ pc = "walk" /\ fi <= Len(tree)
  /\ tree[fi].kind = "file"
  /\ ~IsIgnored(tree[fi].name, ignore)
  /\ ~tree[fi].read
  /\ reads' = [reads EXCEPT ![fi] = @ + 1]
  /\ fi' = fi + 1
  /\ UNCHANGED <<inputs, pc, mi, mapping, ei, contents, disk, writes,
                 wres, found, touched, faults>>

\* read_to_string returns the content of the file.
ApplyRead ==
  /\ pc = "walk" /\ fi <= Len(tree)
  /\ tree[fi].kind = "file"
  /\ ~IsIgnored(tree[fi].name, ignore)
  /\ tree[fi].read
  /\ reads' = [reads EXCEPT ![fi] = @ + 1]
  /\ contents' = disk[fi]
  /\ touched' = {}
  /\ ei' = 1
  /\ pc' = "entry"
  /\ UNCHANGED <<inputs, mi, mapping, fi, disk, writes, wres, found, faults>>

\* One iteration of `for (src, dst) in mapping`.
ApplyEntry ==
  /\ pc = "entry" /\ ei <= Len(mapping)
  /\ LET indices == MatchIndices(contents, mapping[ei][1])
     IN  /\ found' = [found EXCEPT ![fi] = Append(@, Len(indices))]
         /\ touched' = IF force THEN touched \cup Windows(indices) ELSE touched
  /\ contents' = Rewritten(contents, mapping[ei], force)
  /\ ei' = ei + 1
  /\ UNCHANGED <<inputs, pc, mi, mapping, fi, disk, reads, writes, wres,
                 faults>>

\* Mutant of ShouldWrite: the file is written in a dry run too.
ShouldWrite_Always(f, counts) == TRUE

\* The entries are done: `if force { fs::write(..) }`.
ShouldWrite(f, counts) == f

ApplyWriteOk ==
  /\ pc = "entry" /\ ei > Len(mapping)
  /\ ShouldWrite(force, found[fi])
  /\ disk' = [disk EXCEPT ![fi] = contents]
  /\ writes' = [writes EXCEPT ![fi] = @ + 1]
  /\ wres' = [wres EXCEPT ![fi] = "ok"]
  /\ pc' = "walk" /\ fi' = fi + 1
  /\ UNCHANGED <<inputs, mi, mapping, ei, contents, reads, found, touched,
                 faults>>

\* fs::write returns Err: logged, the loop goes on.
ApplyWriteErr ==
  /\ pc = "entry" /\ ei > Len(mapping)
  /\ ShouldWrite(force, found[fi])
  /\ faults < MaxWriteFaults
  /\ disk' \in {[disk EXCEPT ![fi] = c] : c \in WriteErrOutcomes(disk[fi], contents)}
  /\ writes' = [writes EXCEPT ![fi] = @ + 1]
  /\ wres' = [wres EXCEPT ![fi] = "err"]
  /\ faults' = faults + 1
  /\ pc' = "walk" /\ fi' = fi + 1
  /\ UNCHANGED <<inputs, mi, mapping, ei, contents, reads, found, touched>>

\* No write: the loop goes on with the next entry of the walk.
ApplyNoWrite ==
  /\ pc = "entry" /\ ei > Len(mapping)
  /\ ~ShouldWrite(force, found[fi])
  /\ pc' = "walk" /\ fi' = fi + 1
  /\ UNCHANGED <<inputs, mi, mapping, ei, contents, disk, reads, writes, wres,
                 found, touched, faults>>

\* The walk is over: apply_mapping returns, main warns of a dry run and ends.
ApplyReturn ==
  /\ pc = "walk" /\ fi > Len(tree)
  /\ pc' = "done"
  /\ UNCHANGED <<inputs, mi, mapping, fi, ei, contents, disk, reads, writes,
                 wres, found, touched, faults>>

\* ----------------------------------------------------------- specification

\* Descriptor trees that exercise the rewrite pass.
DescLists ==
  { <<>>,
    <<GuidDesc(HyphenatedString(UuidA)), GuidDesc(Rep("A", 32))>>,
    <<GuidDesc(HyphenatedString(UuidA)), GuidDesc(IdB)>>,
    <<GuidDesc(HyphenatedString(UuidA)),
      GuidDesc(<<"{">> \o HyphenatedString(UuidY) \o <<"}">>)>> }

\* The ignore option given on the command line, when one is.
Opt_custom == Opt_some(<<"g","i","t",","," ","e","x","e"," ">>)

\* Three families of runs: every walk of scan_dir over an empty working
\* directory; the descriptor trees above over every working directory of
\* readable files; one descriptor over every working directory, with a
\* custom ignore list.
Init ==
  \/ \E s \in SeqsUpTo(AllDescs, MaxMetas) :
       StartState(s, <<>>, TRUE, Opt_none)
  \/ \E s \in DescLists, t \in SeqsUpTo(TextFiles, MaxFiles), f \in BOOLEAN :
       StartState(s, t, f, Opt_none)
  \/ \E t \in SeqsUpTo(AllFiles, MaxFiles), f \in BOOLEAN, o \in {Opt_none, Opt_custom} :
       StartState(<<GuidDesc(HyphenatedString(UuidA))>>, t, f, o)

Next ==
  \/ MakeWalkErr \/ MakeSkip \/ MakePush \/ MakeReturn
  \/ ApplyWalkErr \/ ApplySkip \/ ApplyReadErr \/ ApplyRead
  \/ ApplyEntry \/ ApplyWriteOk \/ ApplyWriteErr \/ ApplyNoWrite
  \/ ApplyReturn

Spec == Init /\ [][Next]_vars

\* ------------------------------------------------------- reference notions

\* The number of non-overlapping occurrences of pat in text, left to right.
RECURSIVE CountOcc(_, _)
CountOcc(text, pat) ==
  IF Len(text) < Len(pat) THEN 0
  ELSE IF SubSeq(text, 1, Len(pat)) = pat
    THEN 1 + CountOcc(SubSeq(text, Len(pat) + 1, Len(text)), pat)
    ELSE CountOcc(Tail(text), pat)

\* Reference substitution: every non-overlapping left-to-right occurrence of
\* old replaced by new, built as a new text.
RECURSIVE RefReplace(_, _, _)
RefReplace(text, old, new) ==
  IF Len(text) < Len(old) THEN text
  ELSE IF SubSeq(text, 1, Len(old)) = old
    THEN new \o RefReplace(SubSeq(text, Len(old) + 1, Len(text)), old, new)
    ELSE <<Head(text)>> \o RefReplace(Tail(text), old, new)

\* The reference substitution folded over the first k entries of a mapping.
RECURSIVE RefFold(_, _, _)
RefFold(text, m, k) ==
  IF k = 0 THEN text
  ELSE RefReplace(RefFold(text, m, k - 1), m[k][1], m[k][2])

Files == 1..Len(tree)
Entries == 1..Len(mapping)

\* A file of the walk that apply_mapping is to rewrite.
Eligible(i) ==
  /\ tree[i].kind = "file"
  /\ ~\E k \in 1..Len(ignore) : EndsWith(tree[i].name, ignore[k])

\* The file was read and every mapping entry was run on it.
Processed(i) == Eligible(i) /\ tree[i].read /\ (i < fi \/ pc = "done")

\* No run of lowercase hexadecimal digits of the text is longer than an
\* identifier: identifiers in it cannot overlap, nor be part of a longer run.
Delimited(text) ==
  \A p \in 1..(Len(text) - UUID_STR_LEN) :
    \E q \in p..(p + UUID_STR_LEN) : text[q] \notin LowerDigits

\* The identifiers of the mapping, old and new, are 2 * Len(mapping) values.
AllDistinct ==
  /\ \A j, k \in Entries : mapping[j][1] # mapping[k][2]
  /\ \A j, k \in Entries : j # k =>
        mapping[j][1] # mapping[k][1] /\ mapping[j][2] # mapping[k][2]

\* A descriptor that make_mapping is to turn into an entry.
WellFormed(e) ==
  /\ e.kind = "file"
  /\ EndsWith(e.name, Str_meta)
  /\ e.read
  /\ e.yaml = "guid"
  /\ ParseStr(e.guid).ok

\* The old identifiers of the well-formed descriptors among the first k
\* entries of the walk, in the order of the walk.
RECURSIVE ExpectedOlds(_)
ExpectedOlds(k) ==
  IF k = 0 THEN <<>>
  ELSE LET e == src[k]
           parsed == ParseStr(e.guid)
       IN  IF e.kind = "file" /\ EndsWith(e.name, Str_meta) /\ e.read
              /\ e.yaml = "guid" /\ parsed.ok
             THEN Append(ExpectedOlds(k - 1), SimpleString(parsed.uuid))
             ELSE ExpectedOlds(k - 1)

\* ------------------------------------------------------------------ claims

\* C1. Dry run: with force = FALSE, whatever the mapping and the ignore list,
\* no file is written and every file holds on disk the content it had.
C1_DryRunNoMutation ==
  ~force =>
    \A i \in Files : writes[i] = 0 /\ wres[i] = "none"
                       /\ disk[i] = tree[i].content

\* A dry run that ended after finding occurrences to rewrite.
C1_Witness ==
  /\ ~force /\ pc = "done"
  /\ \E i \in Files : \E k \in 1..Len(found[i]) : found[i][k] > 0

\* C2 as stated, read in its favour (only files whose write succeeded, and
\* generated identifiers that collide with nothing): after an apply-mode run,
\* if no old identifier is a substring of another, every old identifier has
\* no occurrence left in a rewritten file and the occurrences of its new
\* identifier are those the file had plus those of the old one.
C2_Original ==
  (pc = "done" /\ force /\ AllDistinct
     /\ \A j, k \in Entries : j # k => CountOcc(mapping[j][1], mapping[k][1]) = 0)
  => \A i \in Files : (Processed(i) /\ wres[i] = "ok") =>
       \A k \in Entries :
         /\ CountOcc(disk[i], mapping[k][1]) = 0
         /\ CountOcc(disk[i], mapping[k][2]) =
              CountOcc(tree[i].content, mapping[k][2])
                + CountOcc(tree[i].content, mapping[k][1])

\* C2, amended: the same conclusion for a file that was read and written
\* back, when the old and new identifiers of the mapping are pairwise
\* distinct and the file holds no run of more than 32 hexadecimal digits.
C2_SubstitutionComplete ==
  (pc = "done" /\ force /\ AllDistinct)
  => \A i \in Files :
       (Processed(i) /\ wres[i] = "ok" /\ Delimited(tree[i].content)) =>
         \A k \in Entries :
           /\ CountOcc(disk[i], mapping[k][1]) = 0
           /\ CountOcc(disk[i], mapping[k][2]) =
                CountOcc(tree[i].content, mapping[k][2])
                  + CountOcc(tree[i].content, mapping[k][1])

\* An apply-mode run with two distinct entries rewrote a delimited file that
\* held an old identifier twice, and one of the new identifiers already.
C2_Witness ==
  /\ pc = "done" /\ force /\ AllDistinct /\ Len(mapping) = 2
  /\ \E i \in Files :
       /\ Processed(i) /\ wres[i] = "ok" /\ Delimited(tree[i].content)
       /\ \E k \in Entries :
            /\ CountOcc(tree[i].content, mapping[k][1]) = 2
            /\ CountOcc(tree[i].content, mapping[k][2]) = 1
            /\ CountOcc(disk[i], mapping[k][2]) = 3

\* C3 as stated: a file is written only if a substitution occurred in it, and
\* with an empty mapping no file is written, whatever force is.
C3_WriteOnlyIfSubstituted ==
  /\ \A i \in Files :
       writes[i] > 0 => \E k \in 1..Len(found[i]) : found[i][k] > 0
  /\ (mapping = <<>> /\ pc \in {"walk", "entry", "done"}) =>
       \A i \in Files : writes[i] = 0 /\ disk[i] = tree[i].content

\* C4. A file whose name ends with an ignored suffix is never read, never
\* written and never modified.
C4_IgnoredUntouched ==
  \A i \in Files :
    (tree[i].kind = "file"
       /\ \E k \in 1..Len(ignore) : EndsWith(tree[i].name, ignore[k]))
    => reads[i] = 0 /\ writes[i] = 0 /\ disk[i] = tree[i].content

\* An apply-mode run went past an ignored file that holds an old identifier,
\* under an ignore list of several suffixes, and rewrote another file.
C4_Witness ==
  /\ pc = "done" /\ force /\ Len(ignore) > 1
  /\ \E i \in Files :
       /\ tree[i].kind = "file"
       /\ \E k \in 1..Len(ignore) : EndsWith(tree[i].name, ignore[k])
       /\ \E k \in Entries : CountOcc(tree[i].content, mapping[k][1]) > 0
  /\ \E i \in Files : wres[i] = "ok" /\ disk[i] # tree[i].content

\* C5. Every mapping entry holds two identifiers of 32 bytes, and rewriting
\* the text of a file keeps its length and every byte outside the 32-byte
\* windows of the occurrences found, in memory and once written.
C5_LengthInvariance ==
  /\ \A k \in Entries :
       Len(mapping[k][1]) = UUID_STR_LEN /\ Len(mapping[k][2]) = UUID_STR_LEN
  /\ pc = "entry" =>
       /\ Len(contents) = Len(disk[fi])
       /\ \A p \in 1..Len(contents) :
            p \notin touched => contents[p] = disk[fi][p]
  /\ \A i \in Files : wres[i] = "ok" => Len(disk[i]) = Len(tree[i].content)

\* In apply mode, the text in memory differs from the file: windows were
\* overwritten, and bytes outside them are there to be kept.
C5_Witness ==
  /\ pc = "entry" /\ force
  /\ contents # disk[fi]
  /\ touched # {}
  /\ \E p \in 1..Len(contents) : p \notin touched

\* C6. Whatever is wrong with a .meta file, it adds no entry and the pass
\* goes on: the old identifiers of the mapping are those of the well-formed
\* descriptors walked so far, in the order of the walk, and make_mapping
\* stops early only on an error of the walk itself.
C6_MalformedIsolated ==
  /\ [k \in Entries |-> mapping[k][1]] = ExpectedOlds(mi - 1)
  /\ pc \in {"walk", "entry", "done"} => mi = Len(src) + 1
  /\ (pc = "panic" /\ fi = 0) => src[mi].kind = "err"

\* make_mapping returned one entry for a walk that went through a malformed
\* .meta file before a well-formed one.
C6_Witness ==
  /\ pc = "walk" /\ Len(src) = 2 /\ Len(mapping) = 1
  /\ src[1].kind = "file" /\ EndsWith(src[1].name, Str_meta)
  /\ ~WellFormed(src[1])
  /\ WellFormed(src[2])

\* C7 as stated: a failed read or a failed write leaves the file on disk as
\* it was and does not stop the pass, which ends early only on an error of
\* the walk.
C7_ErrorsLocal ==
  /\ \A i \in Files :
       (wres[i] = "err" \/ (Eligible(i) /\ ~tree[i].read)) =>
         disk[i] = tree[i].content
  /\ pc = "panic" =>
       IF fi = 0 THEN src[mi].kind = "err" ELSE tree[fi].kind = "err"
  /\ pc = "done" => fi = Len(tree) + 1

\* C8. The content persisted for a file is the reference substitution folded
\* over the mapping in mapping order, each entry applied to the result of
\* the entries before it.
C8_OrderedApplication ==
  \A i \in Files :
    wres[i] = "ok" => disk[i] = RefFold(tree[i].content, mapping, Len(mapping))

\* A file was persisted in which the second entry, whose old identifier is
\* the new identifier of the first, rewrote what the first had written.
C8_Witness ==
  /\ force /\ Len(mapping) = 2
  /\ mapping[1][2] = mapping[2][1]
  /\ mapping[2][2] # mapping[2][1]
  /\ \E i \in Files :
       /\ wres[i] = "ok"
       /\ CountOcc(tree[i].content, mapping[1][1]) > 0
       /\ CountOcc(disk[i], mapping[1][2]) = 0
       /\ CountOcc(disk[i], mapping[2][2]) >=
            CountOcc(tree[i].content, mapping[1][1])

\* Two descriptors of the walk that declare the same identifier.
SameGuid(p, q) ==
  /\ p < q /\ WellFormed(src[p]) /\ WellFormed(src[q])
  /\ ParseStr(src[p].guid).uuid = ParseStr(src[q].guid).uuid

\* C9 as stated: two descriptors with the same identifier give two entries
\* with the same old, and in an apply-mode run each of the two finds
\* occurrences of old in a file that contains it.
C9_Original ==
  (pc = "done" /\ force) =>
    \A p, q \in 1..Len(src) : SameGuid(p, q) =>
      \E j, k \in Entries :
        /\ j < k /\ mapping[j][1] = mapping[k][1]
        /\ mapping[j][1] = SimpleString(ParseStr(src[p].guid).uuid)
        /\ \A i \in Files :
             (Processed(i) /\ CountOcc(tree[i].content, mapping[j][1]) > 0)
             => found[i][j] > 0 /\ found[i][k] > 0

\* C9, amended: two descriptors with the same identifier give two entries
\* with the same old; in an apply-mode run the first of them finds every
\* occurrence of old and the second, which searches the text as the entries
\* before it left it, finds none, when the file holds no run of more than 32
\* hexadecimal digits and no earlier new identifier equals old.
C9_FirstEntryWins ==
  (pc = "done" /\ force) =>
    \A p, q \in 1..Len(src) : SameGuid(p, q) =>
      \E j, k \in Entries :
        /\ j < k /\ mapping[j][1] = mapping[k][1]
        /\ mapping[j][1] = SimpleString(ParseStr(src[p].guid).uuid)
        /\ \A m \in 1..(j - 1) : mapping[m][1] # mapping[j][1]
        /\ \A i \in Files :
             (/\ Processed(i) /\ Delimited(tree[i].content)
              /\ \A m \in 1..(k - 1) : mapping[m][2] # mapping[j][1])
             => /\ found[i][j] = CountOcc(tree[i].content, mapping[j][1])
                /\ found[i][k] = 0

\* An apply-mode run with two entries for one old identifier and two
\* different new ones, over a delimited file that held the old identifier.
C9_Witness ==
  /\ pc = "done" /\ force /\ Len(mapping) = 2
  /\ \E p, q \in 1..Len(src) : SameGuid(p, q)
  /\ mapping[1][1] = mapping[2][1] /\ mapping[1][2] # mapping[2][2]
  /\ \E i \in Files :
       /\ Processed(i) /\ Delimited(tree[i].content)
       /\ found[i][1] = 2 /\ found[i][2] = 0
       /\ wres[i] = "ok" /\ CountOcc(disk[i], mapping[1][2]) >= 2

\* C10 as stated, its part on the disk: at every point of the run every file
\* holds its original content or its content with every mapping entry
\* applied; and the mapping is complete before the first file is read.
C10_AllOrNothing ==
  /\ \A i \in Files :
       \/ disk[i] = tree[i].content
       \/ disk[i] = RefFold(tree[i].content, mapping, Len(mapping))
  /\ (\E i \in Files : reads[i] > 0) => mi = Len(src) + 1

====
